---- MODULE Spec2Model ----
(***************************************************************************)
(* Dive log application: the "dives" table of the Convex backend and the  *)
(* mutations of convex/dives.ts that write it (upsertDive, createDive,     *)
(* updateDive, deleteDive).                                                *)
(*                                                                         *)
(* A document is a function from field names to values, as a JavaScript    *)
(* object is: an optional field the caller omits is absent from the        *)
(* domain.  The table maps the ids of the live documents to them.          *)
(*                                                                         *)
(* A Convex mutation runs as one serializable transaction, and Date.now()  *)
(* is frozen for the length of one execution of a handler.  Spec runs the  *)
(* mutations one after the other.  SpecConc runs upsertDive invocations    *)
(* step by step (the handler's two awaits), with the commit-time check of  *)
(* the read set that makes the transaction serializable; SpecRace starts   *)
(* them on a table that holds a record, SpecFault lets the store's calls   *)
(* throw.  SpecPhoto adds the file storage, SpecGeo calls with             *)
(* coordinates.  SpecLocation is the geocoding client (lib/geocoding.ts)   *)
(* with the location picker, SpecClub the club-website search              *)
(* (lib/search.ts, its API route and the form's search button).            *)
(* SpecForm is the dive form with the steps of handleSubmit, SpecSubmit    *)
(* the same with every awaited call settling in the end; SpecSearch is the *)
(* location search input with its timers and its searches in flight.       *)
(***************************************************************************)
EXTENDS Integers, FiniteSets, Sequences, TLC

VARIABLES
    dives,      \* the "dives" table: live document id -> document
    nextId,     \* the next document id the store hands out
    clock,      \* the wall clock read by Date.now(), in ms
    last,       \* the last mutation call: its arguments and what it returned
    calls,      \* the number of mutation calls made so far (Spec)
    inv,        \* the concurrent upsertDive invocations (SpecConc)
    photos,     \* the file storage "_storage": storage id -> stored file
    geo,        \* the geocoding client and the location picker (SpecLocation)
    club,       \* the club-website search and the form fields it fills (SpecClub)
    form,       \* the dive form and its running submission (SpecForm)
    searchInput \* the location search input: its timer and searches (SpecSearch)

\* The state of the browser side
frontVars == <<geo, club, form, searchInput>>

vars == <<dives, nextId, clock, last, calls, inv, photos, geo, club, form, searchInput>>

---------------------------------------------------------------------------
(* Bounds and input domains *)

MaxDocs == 2
MaxClock == 1
NumInv == 2
MaxCalls == 3

Users == {"u1", "u2"}
DiveNumbers == {1}
Durations == {45, 60}
Depths == {18}
NoteTexts == {"first"}

Empty == [f \in {} |-> 0]

---------------------------------------------------------------------------
(* JavaScript objects and the store's primitives *)

Has(doc, f) == f \in DOMAIN doc

\* { ...a, ...b }
Spread(a, b) ==
    [f \in DOMAIN a \cup DOMAIN b |-> IF f \in DOMAIN b THEN b[f] ELSE a[f]]

Pick(a, fields) == [f \in DOMAIN a \cap fields |-> a[f]]

\* ctx.db.patch(id, fields): a shallow merge into the stored document
PatchReplaces(db, id, fields) == [db EXCEPT ![id] = fields]

PatchCascades(db, id, fields) == [i \in DOMAIN db |-> Spread(db[i], fields)]

dbPatch(db, id, fields) == [db EXCEPT ![id] = Spread(@, fields)]

\* ctx.db.insert("dives", doc), under the id the store hands out
dbInsert(db, id, doc) == [i \in DOMAIN db \cup {id} |-> IF i = id THEN doc ELSE db[i]]

\* ctx.db.delete(id)
dbDelete(db, id) == [i \in DOMAIN db \ {id} |-> db[i]]

\* .withIndex("by_dive_number", q => q.eq("user_id", u).eq("dive_number", n))
IndexIgnoresUser(db, u, n) ==
    {id \in DOMAIN db : Has(db[id], "dive_number") /\ db[id].dive_number = n}

by_dive_number(db, u, n) ==
    {id \in DOMAIN db :
        /\ Has(db[id], "user_id") /\ db[id].user_id = u
        /\ Has(db[id], "dive_number") /\ db[id].dive_number = n}

---------------------------------------------------------------------------
(* Argument validators *)

\* The fields the properties read.  The validator's other required fields
\* (dive_date, location, club_name, ...) are checked and stored as duration
\* is, its other optional fields (site, weather, ...) as notes is.  A validator
\* checks presence and type only: v.number() accepts every number.
UpsertRequired == {"user_id", "dive_number", "duration", "max_depth"}
UpsertOptional == {"notes", "latitude", "longitude"}

UpsertAcceptsAnyField(args) == UpsertRequired \subseteq DOMAIN args

UpsertArgsOk(args) ==
    /\ UpsertRequired \subseteq DOMAIN args
    /\ DOMAIN args \subseteq UpsertRequired \cup UpsertOptional

\* The calls a client can send to upsertDive: well-formed ones over the input
\* domains, out-of-range ones, one that omits a required field and one that
\* supplies logged_at.
UpsertWellFormed ==
    { Spread([user_id |-> u, dive_number |-> n, duration |-> d, max_depth |-> m], o) :
        u \in Users, n \in DiveNumbers, d \in Durations, m \in Depths,
        o \in {Empty} \cup {[notes |-> t] : t \in NoteTexts} }

\* Calls the validator accepts whose values are outside the documented ranges:
\* duration <= 0, max depth < 0, dive number <= 0.
UpsertOutOfRange ==
    { [user_id |-> "u1", dive_number |-> 1, duration |-> -1, max_depth |-> 18],
      [user_id |-> "u1", dive_number |-> 1, duration |-> 45, max_depth |-> -1],
      [user_id |-> "u1", dive_number |-> 0, duration |-> 45, max_depth |-> 18] }

UpsertMalformed ==
    { [user_id |-> "u1", dive_number |-> 1, max_depth |-> 18],
      [user_id |-> "u1", dive_number |-> 1, duration |-> 45, max_depth |-> 18,
       logged_at |-> 0] }

UpsertCalls == UpsertWellFormed \cup UpsertOutOfRange \cup UpsertMalformed

\* The upsertDive calls made next to the other mutations (Spec)
UpsertCallsCrud ==
    { [user_id |-> "u1", dive_number |-> 1, duration |-> 45, max_depth |-> 18],
      [user_id |-> "u1", dive_number |-> 1, duration |-> 60, max_depth |-> 18,
       notes |-> "first"],
      [user_id |-> "u2", dive_number |-> 1, duration |-> 45, max_depth |-> 18],
      [user_id |-> "u1", dive_number |-> 1, duration |-> 45, max_depth |-> 18,
       logged_at |-> 0] }

---------------------------------------------------------------------------
(* upsertDive *)

\* const existing = await ctx.db.query("dives").withIndex(...).unique()
UpsertLooksUpDuration(db, args) == by_dive_number(db, args.user_id, args.duration)

UpsertExisting(db, args) == by_dive_number(db, args.user_id, args.dive_number)

\* { ...args, updated_at: now }
UpsertStampsOld(args, now) == Spread(args, [updated_at |-> 0])

UpsertPatchesStampOnly(args, now) == [updated_at |-> now]

UpsertPatchFields(args, now) == Spread(args, [updated_at |-> now])

\* { ...args, logged_at: now, updated_at: now }
UpsertInsertDoc(args, now) == Spread(args, [logged_at |-> now, updated_at |-> now])

\* What the call leaves in "last"; repeat tells that the call before it was an
\* upsertDive that went through with the very same arguments.
UpsertReturn(args, now, result, id) ==
    [op |-> "upsertDive", args |-> args, now |-> now, result |-> result, id |-> id,
     repeat |-> /\ last.op = "upsertDive"
                /\ last.result \in {"inserted", "updated"}
                /\ last.args = args]

upsertDive(args) ==
    LET now == clock
        existing == UpsertExisting(dives, args)
    IN  IF ~UpsertArgsOk(args)
        THEN /\ last' = UpsertReturn(args, now, "rejected", 0)
             /\ UNCHANGED <<dives, nextId>>
        ELSE IF Cardinality(existing) > 1
        THEN /\ last' = UpsertReturn(args, now, "error", 0)
             /\ UNCHANGED <<dives, nextId>>
        ELSE IF existing # {}
        THEN LET id == CHOOSE i \in existing : TRUE
             IN  /\ dives' = dbPatch(dives, id, UpsertPatchFields(args, now))
                 /\ last' = UpsertReturn(args, now, "updated", id)
                 /\ UNCHANGED nextId
        ELSE /\ nextId <= MaxDocs
             /\ dives' = dbInsert(dives, nextId, UpsertInsertDoc(args, now))
             /\ nextId' = nextId + 1
             /\ last' = UpsertReturn(args, now, "inserted", nextId)

---------------------------------------------------------------------------
(* createDive, updateDive, deleteDive *)

\* The fields the properties read, as for upsertDive.  Neither createDive's
\* validator nor that of updateDive's updates declares loggedAt or updatedAt,
\* and the latter does not declare userId.
CreateRequired == {"userId", "duration", "maxDepth"}
CreateOptional == {"diveNumber", "notes", "latitude", "longitude", "photoStorageId"}

CreateArgsOk(args) ==
    /\ CreateRequired \subseteq DOMAIN args
    /\ DOMAIN args \subseteq CreateRequired \cup CreateOptional

CreateCalls ==
    { Spread([userId |-> u, duration |-> 45, maxDepth |-> 18], o) :
        u \in Users, o \in {Empty} \cup {[diveNumber |-> n] : n \in DiveNumbers} }
    \cup {[userId |-> "u1", duration |-> 45, maxDepth |-> 18, loggedAt |-> 0]}

\* The handler copies the declared fields one by one; the store drops a field
\* whose value is undefined.  Both timestamps are Date.now() of one execution.
CreateStampsApart(args, now) ==
    Spread(Pick(args, CreateRequired \cup CreateOptional),
           [loggedAt |-> now, updatedAt |-> now + 1])

CreateInsertDoc(args, now) ==
    Spread(Pick(args, CreateRequired \cup CreateOptional),
           [loggedAt |-> now, updatedAt |-> now])

createDive(args) ==
    LET now == clock
    IN  IF ~CreateArgsOk(args)
        THEN /\ last' = [op |-> "createDive", args |-> args, now |-> now,
                         result |-> "rejected", id |-> 0]
             /\ UNCHANGED <<dives, nextId>>
        ELSE /\ nextId <= MaxDocs
             /\ dives' = dbInsert(dives, nextId, CreateInsertDoc(args, now))
             /\ nextId' = nextId + 1
             /\ last' = [op |-> "createDive", args |-> args, now |-> now,
                         result |-> "inserted", id |-> nextId]

UpdateFields ==
    {"diveNumber", "duration", "maxDepth", "notes", "latitude", "longitude",
     "photoStorageId"}

UpdateArgsOk(updates) == DOMAIN updates \subseteq UpdateFields

UpdateCalls ==
    { Empty, [notes |-> "first"], [diveNumber |-> 1], [loggedAt |-> 0] }

\* { ...args.updates, updatedAt: Date.now() }
UpdateOmitsStamp(updates, now) == updates

UpdatePatchFields(updates, now) == Spread(updates, [updatedAt |-> now])

\* ctx.db.patch throws when the document does not exist
updateDive(diveId, updates) ==
    LET now == clock
        call == [diveId |-> diveId, updates |-> updates]
    IN  IF ~UpdateArgsOk(updates)
        THEN /\ last' = [op |-> "updateDive", args |-> call, now |-> now,
                         result |-> "rejected", id |-> 0]
             /\ UNCHANGED <<dives, nextId>>
        ELSE IF diveId \notin DOMAIN dives
        THEN /\ last' = [op |-> "updateDive", args |-> call, now |-> now,
                         result |-> "error", id |-> 0]
             /\ UNCHANGED <<dives, nextId>>
        ELSE /\ dives' = dbPatch(dives, diveId, UpdatePatchFields(updates, now))
             /\ last' = [op |-> "updateDive", args |-> call, now |-> now,
                         result |-> "updated", id |-> diveId]
             /\ UNCHANGED nextId

\* The file storage after deleteDive has deleted doc: the handler is
\* ctx.db.delete(args.diveId) and nothing else, it makes no ctx.storage call.
DeleteDropsPhoto(store, doc) ==
    IF Has(doc, "photoStorageId") THEN dbDelete(store, doc.photoStorageId) ELSE store

DeleteStorage(store, doc) == store

\* ctx.db.delete throws when the document does not exist
deleteDive(diveId) ==
    LET call == [diveId |-> diveId]
    IN  IF diveId \notin DOMAIN dives
        THEN /\ last' = [op |-> "deleteDive", args |-> call, now |-> clock,
                         result |-> "error", id |-> 0]
             /\ UNCHANGED <<dives, nextId, photos>>
        ELSE /\ dives' = dbDelete(dives, diveId)
             /\ photos' = DeleteStorage(photos, dives[diveId])
             /\ last' = [op |-> "deleteDive", args |-> call, now |-> clock,
                         result |-> "deleted", id |-> diveId,
                         doc |-> dives[diveId]]
             /\ UNCHANGED nextId

\* The index by_userId: the documents whose userId is the given one
by_userId(table, userId) ==
    {id \in DOMAIN table : Has(table[id], "userId") /\ table[id].userId = userId}

\* dives.reduce((sum, d) => sum + d.duration, 0)
RECURSIVE TotalTime(_, _)
TotalTime(table, ids) ==
    IF ids = {} THEN 0
    ELSE LET id == CHOOSE i \in ids : TRUE
         IN  table[id].duration + TotalTime(table, ids \ {id})

\* The query getDiveStats
getDiveStats(table, userId) ==
    LET ids == by_userId(table, userId)
        depths == {table[id].maxDepth : id \in ids}
    IN  IF ids = {}
        THEN [totalDives |-> 0, maxDepth |-> 0, totalTime |-> 0]
        ELSE [totalDives |-> Cardinality(ids),
              maxDepth |-> CHOOSE m \in depths : \A d \in depths : d <= m,
              totalTime |-> TotalTime(table, ids)]

---------------------------------------------------------------------------
(* The file storage *)

StorageIds == {"p1"}

\* generateUploadUrl hands out an upload URL and the client POSTs the photo to
\* it: the storage keeps the file under a new storage id.
uploadPhoto(p) ==
    /\ p \notin DOMAIN photos
    /\ photos' = dbInsert(photos, p, "image")
    /\ UNCHANGED <<dives, nextId, clock, last, calls, inv, frontVars>>

\* ctx.storage.getUrl(storageId): null when no file is stored under the id
getDivePhotoUrl(store, storageId) ==
    IF storageId \in DOMAIN store THEN <<"url", storageId>> ELSE <<"null">>

\* createDive calls of the dive form, which sends the storage id of the photo
PhotoCreateCalls ==
    {[userId |-> "u1", duration |-> 45, maxDepth |-> 18, photoStorageId |-> p] :
        p \in StorageIds}
    \cup {[userId |-> "u2", diveNumber |-> 1, duration |-> 45, maxDepth |-> 18]}

---------------------------------------------------------------------------
(* upsertDive, step by step: concurrent invocations of the mutation *)

ConcCalls ==
    { [user_id |-> "u1", dive_number |-> 1, duration |-> 45, max_depth |-> 18],
      [user_id |-> "u1", dive_number |-> 1, duration |-> 60, max_depth |-> 18,
       notes |-> "first"],
      [user_id |-> "u2", dive_number |-> 1, duration |-> 45, max_depth |-> 18],
      [user_id |-> "u1", dive_number |-> 1, duration |-> 45, max_depth |-> 18,
       logged_at |-> 0] }

\* seq is the place of the invocation's write in the order the store applied
\* the writes (0: it has not written).
Idle ==
    [pc |-> "idle", args |-> Empty, now |-> 0, existing |-> {}, stale |-> FALSE,
     result |-> "none", id |-> 0, retried |-> FALSE, seq |-> 0]

Landed == Cardinality({j \in DOMAIN inv : inv[j].seq > 0})

SameKey(a, b) == a.user_id = b.user_id /\ a.dive_number = b.dive_number

\* The mutation is a transaction: a write that commits invalidates every
\* execution in flight that has read the index range the write falls in.
NeverConflicts(written, reader) == FALSE

Conflicts(written, reader) == reader.pc = "write" /\ SameKey(written, reader.args)

Invalidate(i, written) ==
    [j \in DOMAIN inv |->
        IF j # i /\ Conflicts(written, inv[j])
        THEN [inv[j] EXCEPT !.stale = TRUE]
        ELSE inv[j]]

\* The client calls the mutation: the validator runs, the handler starts and
\* reads Date.now().
UpsertCall(i, args) ==
    /\ inv[i].pc = "idle"
    /\ inv' = [inv EXCEPT ![i] =
                 IF UpsertArgsOk(args)
                 THEN [Idle EXCEPT !.pc = "lookup", !.args = args, !.now = clock]
                 ELSE [Idle EXCEPT !.pc = "done", !.args = args, !.result = "rejected"]]
    /\ UNCHANGED <<dives, nextId, clock, last, calls, photos, frontVars>>

\* await ctx.db.query("dives").withIndex("by_dive_number", ...).unique()
UpsertLookup(i) ==
    /\ inv[i].pc = "lookup"
    /\ LET existing == UpsertExisting(dives, inv[i].args)
       IN  inv' = [inv EXCEPT ![i] =
                     IF Cardinality(existing) > 1
                     THEN [@ EXCEPT !.pc = "done", !.result = "error"]
                     ELSE [@ EXCEPT !.pc = "write", !.existing = existing,
                                    !.stale = FALSE]]
    /\ UNCHANGED <<dives, nextId, clock, last, calls, photos, frontVars>>

\* await ctx.db.patch(...) or await ctx.db.insert(...), and the commit.  An
\* invalidated execution is discarded and the handler runs again.
UpsertWrite(i) ==
    /\ inv[i].pc = "write"
    /\ LET me == inv[i]
       IN  IF me.stale
           THEN /\ inv' = [inv EXCEPT ![i] =
                             [@ EXCEPT !.pc = "lookup", !.now = clock,
                                       !.existing = {}, !.stale = FALSE,
                                       !.retried = TRUE]]
                /\ UNCHANGED <<dives, nextId>>
           ELSE IF me.existing # {}
           THEN LET id == CHOOSE e \in me.existing : TRUE
                IN  /\ dives' = dbPatch(dives, id, UpsertPatchFields(me.args, me.now))
                    /\ inv' = [Invalidate(i, me.args) EXCEPT ![i] =
                                 [me EXCEPT !.pc = "done", !.result = "updated",
                                            !.id = id, !.seq = Landed + 1]]
                    /\ UNCHANGED nextId
           ELSE /\ nextId <= MaxDocs
                /\ dives' = dbInsert(dives, nextId, UpsertInsertDoc(me.args, me.now))
                /\ nextId' = nextId + 1
                /\ inv' = [Invalidate(i, me.args) EXCEPT ![i] =
                             [me EXCEPT !.pc = "done", !.result = "inserted",
                                        !.id = nextId, !.seq = Landed + 1]]
    /\ UNCHANGED <<clock, last, calls, photos, frontVars>>

\* A store error: the awaited call throws, the handler catches nothing, the
\* mutation fails and its transaction is dropped with whatever it attempted.
UpsertAbortKeepsWrites(db, attempted) == attempted

UpsertAborted(db, attempted) == db

\* The lookup throws
UpsertLookupFails(i) ==
    /\ inv[i].pc = "lookup"
    /\ inv' = [inv EXCEPT ![i] = [@ EXCEPT !.pc = "done", !.result = "error"]]
    /\ UNCHANGED <<dives, nextId, clock, last, calls, photos, frontVars>>

\* ctx.db.patch or ctx.db.insert throws
UpsertWriteFails(i) ==
    /\ inv[i].pc = "write"
    /\ LET me == inv[i]
           attempted ==
               IF me.existing # {}
               THEN dbPatch(dives, CHOOSE e \in me.existing : TRUE,
                            UpsertPatchFields(me.args, me.now))
               ELSE dbInsert(dives, nextId, UpsertInsertDoc(me.args, me.now))
       IN  /\ dives' = UpsertAborted(dives, attempted)
           /\ inv' = [inv EXCEPT ![i] = [me EXCEPT !.pc = "done", !.result = "error"]]
    /\ UNCHANGED <<nextId, clock, last, calls, photos, frontVars>>

---------------------------------------------------------------------------
(* lib/geocoding.ts: searchLocation, reverseGeocode *)

MaxQueryLen == 3

\* A text is the sequence of its characters
Chars == {" ", "a"}

Queries == UNION {[1..n -> Chars] : n \in 0..MaxQueryLen}

RECURSIVE TrimStart(_)
TrimStart(t) == IF t # <<>> /\ Head(t) = " " THEN TrimStart(Tail(t)) ELSE t

RECURSIVE TrimEnd(_)
TrimEnd(t) ==
    IF t # <<>> /\ t[Len(t)] = " " THEN TrimEnd(SubSeq(t, 1, Len(t) - 1)) ELSE t

\* String.prototype.trim
trim(t) == TrimEnd(TrimStart(t))

\* Coordinates are in units of 0.00001 degree.
Points == {<<10, 10>>, <<4370255, -726605>>}

\* Number.prototype.toFixed(4): the coordinate rounded to 0.0001 degree
toFixed4(x) == IF x >= 0 THEN (x + 5) \div 10 ELSE -((5 - x) \div 10)

\* A string is a tuple: plain text, or the coordinate format
\* `${lat.toFixed(4)}, ${lng.toFixed(4)}`
Text(t) == <<"text", t>>

CoordString(lat, lng) == <<"coords", toFixed4(lat), toFixed4(lng)>>

\* null
Null == [null |-> TRUE]

\* What the provider answers to one request: fetch rejects, a non-success
\* status, a body that is not JSON, or a JSON body with or without features.
Nice ==
    [lat |-> 4370000, lon |-> 726000, name |-> Text("Nice"),
         formatted |-> Text("Nice, France")]
Unnamed == [lat |-> 10, lon |-> 10, formatted |-> Text("North Atlantic Ocean")]

GeoResponses ==
    { [kind |-> "unreachable"], [kind |-> "status"], [kind |-> "garbled"],
      [kind |-> "ok"],
      [kind |-> "ok", features |-> <<>>],
      [kind |-> "ok", features |-> <<Nice>>],
      [kind |-> "ok", features |-> <<Unnamed, Nice>>] }

NoRequest == [kind |-> "none"]

\* One feature of the provider's answer as a GeocodingResult
GeoResult(feature) ==
    [lat |-> feature.lat, lon |-> feature.lon,
     name |-> IF Has(feature, "name") THEN feature.name ELSE feature.formatted,
     display_name |-> feature.formatted]

\* data.features || []
Features(resp) == IF Has(resp, "features") THEN resp.features ELSE <<>>

\* The request failed: the catch block logs the error and throws it again.
GeoFailureSwallowed(fn, input, resp) ==
    [fn |-> fn, input |-> input, resp |-> resp, sent |-> 1,
     result |-> "ok", value |-> <<>>]

GeoFailure(fn, input, resp) ==
    [fn |-> fn, input |-> input, resp |-> resp, sent |-> 1,
     result |-> "error", value |-> Text(resp.kind)]

\* What a call returns or throws, and how many requests it sent
searchLocation(key, query, resp) ==
    IF ~key
    THEN [fn |-> "searchLocation", input |-> query, resp |-> NoRequest, sent |-> 0,
          result |-> "error", value |-> Text("Geoapify API key not configured")]
    ELSE IF query = <<>> \/ Len(trim(query)) < 2
    THEN [fn |-> "searchLocation", input |-> query, resp |-> NoRequest, sent |-> 0,
          result |-> "ok", value |-> <<>>]
    ELSE IF resp.kind # "ok"
    THEN GeoFailure("searchLocation", query, resp)
    ELSE [fn |-> "searchLocation", input |-> query, resp |-> resp, sent |-> 1,
          result |-> "ok",
          value |-> [k \in DOMAIN Features(resp) |-> GeoResult(Features(resp)[k])]]

reverseGeocode(key, lat, lon, resp) ==
    IF ~key
    THEN [fn |-> "reverseGeocode", input |-> <<lat, lon>>, resp |-> NoRequest,
          sent |-> 0, result |-> "error", value |-> Text("Geoapify API key not configured")]
    ELSE IF resp.kind # "ok"
    THEN GeoFailure("reverseGeocode", <<lat, lon>>, resp)
    ELSE IF Features(resp) = <<>>
    THEN [fn |-> "reverseGeocode", input |-> <<lat, lon>>, resp |-> resp, sent |-> 1,
          result |-> "ok", value |-> Null]
    ELSE [fn |-> "reverseGeocode", input |-> <<lat, lon>>, resp |-> resp, sent |-> 1,
          result |-> "ok", value |-> GeoResult(Features(resp)[1])]

---------------------------------------------------------------------------
(* components/map/LocationPicker.tsx *)

\* The location the click and dragend handlers hand to onLocationSelect: the
\* catch block names it by its coordinates, the try block by the result's
\* name or "Unknown Location" (displayName: undefined is an absent field).
Picked(lat, lng, r) ==
    IF r.result = "error"
    THEN [latitude |-> lat, longitude |-> lng, name |-> CoordString(lat, lng)]
    ELSE IF r.value = Null
    THEN [latitude |-> lat, longitude |-> lng, name |-> Text("Unknown Location")]
    ELSE [latitude |-> lat, longitude |-> lng, name |-> r.value.name,
          displayName |-> r.value.display_name]

\* selectedLocation.displayName || selectedLocation.name
DisplayName(location) ==
    IF Has(location, "displayName") THEN location.displayName ELSE location.name

GeoStart(key) ==
    [key |-> key, ret |-> [fn |-> "none"], selectedLocation |-> Empty,
     event |-> "none"]

\* A call of searchLocation
SearchLocation(query, resp) ==
    /\ geo' = [geo EXCEPT !.ret = searchLocation(geo.key, query, resp),
                          !.event = "call"]
    /\ UNCHANGED <<dives, nextId, clock, last, calls, inv, photos, club, form, searchInput>>

\* A call of reverseGeocode
ReverseGeocode(pt, resp) ==
    /\ geo' = [geo EXCEPT !.ret = reverseGeocode(geo.key, pt[1], pt[2], resp),
                          !.event = "call"]
    /\ UNCHANGED <<dives, nextId, clock, last, calls, inv, photos, club, form, searchInput>>

\* MapClickHandler, click: handleLocationSelect sets selectedLocation
MapClick(pt, resp) ==
    /\ LET r == reverseGeocode(geo.key, pt[1], pt[2], resp)
       IN  geo' = [geo EXCEPT !.ret = r, !.event = "click",
                              !.selectedLocation = Picked(pt[1], pt[2], r)]
    /\ UNCHANGED <<dives, nextId, clock, last, calls, inv, photos, club, form, searchInput>>

\* DraggableMarker, dragend: the marker is there once a location is selected
DragEnd(pt, resp) ==
    /\ geo.selectedLocation # Empty
    /\ LET r == reverseGeocode(geo.key, pt[1], pt[2], resp)
       IN  geo' = [geo EXCEPT !.ret = r, !.event = "dragend",
                              !.selectedLocation = Picked(pt[1], pt[2], r)]
    /\ UNCHANGED <<dives, nextId, clock, last, calls, inv, photos, club, form, searchInput>>

---------------------------------------------------------------------------
(* lib/search.ts, the /api/search-club route and the form's search button *)

\* A URL or a piece of HTML text is the sequence of its parts; " " is white
\* space.  decodeURIComponent of a part (the parts not listed decode to
\* themselves); a part that ends inside an escape sequence makes it throw.
Decoded ==
    [ part \in {"https%3A%2F%2F"} |-> "https://" ]

Undecodable == {"%E0%A4%A"}

decodeURIComponent(url) ==
    [k \in DOMAIN url |-> IF url[k] \in DOMAIN Decoded THEN Decoded[url[k]] ELSE url[k]]

\* [^&]+ : the parts up to the next "&"
RECURSIVE UpToAmp(_)
UpToAmp(url) ==
    IF url = <<>> \/ Head(url) = "&" THEN <<>> ELSE <<Head(url)>> \o UpToAmp(Tail(url))

\* url.match(/uddg=([^&]+)/): the first uddg parameter with a value, <<>> when
\* there is none
RECURSIVE uddgMatch(_)
uddgMatch(url) ==
    IF url = <<>> THEN <<>>
    ELSE IF Head(url) = "uddg=" /\ UpToAmp(Tail(url)) # <<>> THEN UpToAmp(Tail(url))
    ELSE uddgMatch(Tail(url))

\* url.replace(/^\/\//, 'https://')
ReplaceLeadingSlashes(url) ==
    IF url # <<>> /\ Head(url) = "//" THEN <<"https://">> \o Tail(url) ELSE url

\* url.startsWith('http')
StartsWithHttp(url) ==
    url # <<>> /\ Head(url) \in {"http://", "https://", "httpbin.example"}

\* The URL the route makes of the href of the first result__a link
ResultUrl(href) ==
    ReplaceLeadingSlashes(IF uddgMatch(href) # <<>>
                          THEN decodeURIComponent(uddgMatch(href)) ELSE href)

\* The URL the route makes of the text of the first result__url element
AltUrl(text) ==
    IF StartsWithHttp(trim(text)) THEN trim(text) ELSE <<"https://">> \o trim(text)

\* What the search provider answers to the route's request: fetch rejects, a
\* non-success status, or a page.  href is the href of the page's first
\* result__a link, text the text of its first result__url element, when the
\* page has them.
ProviderPages ==
    { [kind |-> "unreachable"], [kind |-> "status"], [kind |-> "page"] }
    \cup { [kind |-> "page", href |-> h] :
             h \in { <<"https://", "club.example">>,
                     <<"//", "duckduckgo.com/l/?", "uddg=", "https%3A%2F%2F",
                       "club.example", "&", "rut=1">>,
                     <<"//", "duckduckgo.com/l/?", "uddg=", "%E0%A4%A">>,
                     <<"//", "other.example">>,
                     <<"/", "l/?kh=-1">>,
                     <<"club.example">> } }
    \cup { [kind |-> "page", text |-> t] :
             t \in { <<" ", "club.example", " ">>, <<"http://", "other.example">>,
                     <<"httpbin.example">> } }
    \cup { [kind |-> "page", href |-> <<"club.example">>,
            text |-> <<"https://", "club.example">>] }

\* The page has neither a result__a link nor a result__url element
NoResultLink(page) == page.kind = "page" /\ ~Has(page, "href") /\ ~Has(page, "text")

\* GET /api/search-club?q=...: the response, and the requests sent to the
\* provider
GET(query, page) ==
    IF query = <<>>
    THEN [status |-> 400, body |-> [error |-> Text("Query parameter \"q\" is required")],
          sent |-> 0]
    ELSE IF page.kind # "page"
    THEN [status |-> 500, body |-> [error |-> Text("Failed to search DuckDuckGo")],
          sent |-> 1]
    ELSE IF Has(page, "href")
    THEN IF \E k \in DOMAIN uddgMatch(page.href) : uddgMatch(page.href)[k] \in Undecodable
         THEN [status |-> 500, body |-> [error |-> Text("Failed to search DuckDuckGo")],
               sent |-> 1]
         ELSE [status |-> 200,
               body |-> [url |-> ResultUrl(page.href), query |-> query, success |-> TRUE],
               sent |-> 1]
    ELSE IF Has(page, "text")
    THEN [status |-> 200,
          body |-> [url |-> AltUrl(page.text), query |-> query, success |-> TRUE],
          sent |-> 1]
    ELSE [status |-> 404, body |-> [error |-> Text("No results found"), query |-> query],
          sent |-> 1]

\* The club names typed: empty, blank, and names with a letter
ClubNames == {<<>>, <<" ">>, <<"a">>, <<" ", "a">>}

\* The browser's fetch of the route goes through or rejects
Transports == {"ok", "failed"}

\* searchClubWebsite(clubName): what it returns, the route's status and the
\* requests that reached the provider.  encodeURIComponent and the route's
\* searchParams.get give the route the name as it was typed.
searchClubWebsite(clubName, transport, page) ==
    LET call == [fn |-> "searchClubWebsite", input |-> clubName]
        response == GET(clubName, page)
    IN  IF clubName = <<>> \/ Len(trim(clubName)) = 0
        THEN Spread(call, [transport |-> "none", page |-> NoRequest, status |-> 0,
                           sent |-> 0, result |-> "ok", value |-> Null])
        ELSE IF transport = "failed"
        THEN Spread(call, [transport |-> transport, page |-> NoRequest, status |-> 0,
                           sent |-> 0, result |-> "ok", value |-> Null])
        ELSE IF response.status # 200
        THEN Spread(call, [transport |-> transport, page |-> page,
                           status |-> response.status, sent |-> response.sent,
                           result |-> "ok", value |-> Null])
        ELSE IF response.body.success /\ response.body.url # <<>>
        THEN Spread(call, [transport |-> transport, page |-> page,
                           status |-> response.status, sent |-> response.sent,
                           result |-> "ok",
                           value |-> [url |-> response.body.url, title |-> clubName]])
        ELSE Spread(call, [transport |-> transport, page |-> page,
                           status |-> response.status, sent |-> response.sent,
                           result |-> "ok", value |-> Null])

\* The form's club fields, the last call made and the event that made it
ClubStart ==
    [clubName |-> <<>>, clubWebsite |-> <<>>, ret |-> [fn |-> "none"], event |-> "none"]

\* handleClubNameChange, with no autocomplete data loaded
SetClubName(name) ==
    /\ club' = [club EXCEPT !.clubName = name, !.event = "input"]
    /\ UNCHANGED <<dives, nextId, clock, last, calls, inv, photos, geo, form, searchInput>>

\* A call of searchClubWebsite
SearchClubWebsite(name, transport, page) ==
    /\ club' = [club EXCEPT !.ret = searchClubWebsite(name, transport, page),
                            !.event = "call"]
    /\ UNCHANGED <<dives, nextId, clock, last, calls, inv, photos, geo, form, searchInput>>

\* if (result && result.url) setFormData(prev => ({...prev, clubWebsite: result.url}))
ClubWebsiteCleared(clubWebsite, r) ==
    IF r.value # Null /\ r.value.url # <<>> THEN r.value.url ELSE <<>>

ClubWebsiteAfter(clubWebsite, r) ==
    IF r.value # Null /\ r.value.url # <<>> THEN r.value.url ELSE clubWebsite

\* handleSearchClubWebsite: the form's search button
HandleSearchClubWebsite(transport, page) ==
    /\ LET r == searchClubWebsite(club.clubName, transport, page)
       IN  IF club.clubName = <<>> \/ Len(trim(club.clubName)) = 0
           THEN club' = [club EXCEPT !.ret = [fn |-> "handleSearchClubWebsite"],
                                     !.event = "button"]
           ELSE club' = [club EXCEPT
                           !.ret = r, !.event = "button",
                           !.clubWebsite = ClubWebsiteAfter(@, r)]
    /\ UNCHANGED <<dives, nextId, clock, last, calls, inv, photos, geo, form, searchInput>>

\* A request to the route
RouteGet(query, page) ==
    /\ club' = [club EXCEPT !.event = "request", !.ret =
                  Spread([fn |-> "GET", input |-> query,
                          page |-> IF query = <<>> THEN NoRequest ELSE page],
                         GET(query, page))]
    /\ UNCHANGED <<dives, nextId, clock, last, calls, inv, photos, geo, form, searchInput>>

---------------------------------------------------------------------------
(* components/forms/DiveForm.tsx: the form and handleSubmit *)

\* The value of a form field is a number (the initial value, the value after a
\* reset) or the text typed into the input; Number(text) of the texts typed.
NumberOf == [text \in {"", "2"} |-> IF text = "" THEN 0 ELSE 2]

ToNumber(value) == IF Has(value, "num") THEN value.num ELSE NumberOf[value.text]

\* The files the photo input can hand over; sizes in bytes
MaxPhotoSize == 10485760

Files ==
    { [type |-> "image/jpeg", size |-> 1], [type |-> "application/pdf", size |-> 1],
      [type |-> "image/jpeg", size |-> MaxPhotoSize + 1] }

\* A location handed over by the location picker
Spot == [latitude |-> 43, longitude |-> 7, name |-> Text("Nice")]

\* What the POST of the photo to the upload URL comes to: fetch rejects, a
\* non-success status, or success with the id of the stored file
UploadOutcomes == {"unreachable", "status", "ok"}

FormStart ==
    [location |-> Empty, selectedPhoto |-> Empty,
     formData |-> [diveNumber |-> [num |-> 1]],
     error |-> Null, isSubmitting |-> FALSE,
     pc |-> "idle", sub |-> Empty, event |-> "none"]

\* handleLocationSelect
HandleLocationSelect(selectedLocation) ==
    /\ form.pc # "closed"
    /\ form' = [form EXCEPT !.location = selectedLocation, !.event = "location"]
    /\ UNCHANGED <<dives, nextId, clock, last, calls, inv, photos, geo, club, searchInput>>

\* handlePhotoChange
HandlePhotoChange(file) ==
    /\ form.pc # "closed"
    /\ form' =
         IF file.type # "image/jpeg"
         THEN [form EXCEPT !.error = [message |-> "Please select a valid image file"],
                           !.event = "photo"]
         ELSE IF file.size > MaxPhotoSize
         THEN [form EXCEPT !.error = [message |-> "Image size must be less than 10MB"],
                           !.event = "photo"]
         ELSE [form EXCEPT !.selectedPhoto = file, !.error = Null, !.event = "photo"]
    /\ UNCHANGED <<dives, nextId, clock, last, calls, inv, photos, geo, club, searchInput>>

\* handleInputChange on the dive number
HandleInputChange(value) ==
    /\ form.pc # "closed"
    /\ form' = [form EXCEPT !.formData.diveNumber = [text |-> value], !.event = "input"]
    /\ UNCHANGED <<dives, nextId, clock, last, calls, inv, photos, geo, club, searchInput>>

\* The createDive arguments of a submission; the client drops undefined values
SubmitArgs(sub) ==
    Spread([userId |-> "u1", diveNumber |-> ToNumber(sub.formData.diveNumber),
            latitude |-> sub.location.latitude, longitude |-> sub.location.longitude,
            duration |-> 45, maxDepth |-> 20],
           IF Has(sub, "storageId") THEN [photoStorageId |-> sub.storageId] ELSE Empty)

\* handleSubmit up to its first await.  The handler works on the location,
\* the photo and the form data of the render it was created in.  The submit
\* button is disabled while isSubmitting.
HandleSubmit ==
    /\ form.pc = "idle"
    /\ calls < MaxCalls
    /\ calls' = calls + 1
    /\ form' =
         IF form.location = Empty
         THEN [form EXCEPT !.error = [message |-> "Please select a dive location on the map"],
                           !.event = "refused"]
         ELSE IF form.selectedPhoto = Empty
         THEN [form EXCEPT !.error = [message |-> "Please upload a photo to validate this dive"],
                           !.event = "refused"]
         ELSE [form EXCEPT !.error = Null, !.isSubmitting = TRUE,
                           !.pc = "generateUploadUrl", !.event = "started",
                           !.sub = [location |-> form.location,
                                    selectedPhoto |-> form.selectedPhoto,
                                    formData |-> form.formData,
                                    stored |-> DOMAIN photos, issued |-> nextId]]
    /\ UNCHANGED <<dives, nextId, clock, last, inv, photos, geo, club, searchInput>>

\* catch and finally: the error message is set, isSubmitting is false again
SubmitNeverEnds(f, message) ==
    [f EXCEPT !.error = [message |-> message], !.pc = "idle", !.event = "failed"]

SubmitFailed(f, message) ==
    [f EXCEPT !.error = [message |-> message], !.isSubmitting = FALSE,
              !.pc = "idle", !.event = "failed"]

\* await generateUploadUrl()
GenerateUploadUrl(ok) ==
    /\ form.pc = "generateUploadUrl"
    /\ form' = IF ok THEN [form EXCEPT !.pc = "upload", !.event = "url"]
               ELSE SubmitFailed(form, "generateUploadUrl")
    /\ UNCHANGED <<dives, nextId, clock, last, calls, inv, photos, geo, club, searchInput>>

\* uploadResult.ok
UploadAlwaysOk(outcome) == outcome # "unreachable"

UploadOk(outcome) == outcome = "ok"

\* await fetch(uploadUrl, ...) and await uploadResult.json(): the storage
\* keeps the file under a new storage id and answers with the id
Upload(outcome) ==
    /\ form.pc = "upload"
    /\ LET storageId == Cardinality(DOMAIN photos) + 1
       IN  /\ photos' = IF outcome = "ok"
                        THEN dbInsert(photos, storageId, "image") ELSE photos
           /\ form' =
                IF UploadOk(outcome)
                THEN [form EXCEPT !.pc = "createDive", !.event = "uploaded",
                        !.sub = IF outcome = "ok"
                                THEN Spread(@, [storageId |-> storageId]) ELSE @]
                ELSE SubmitFailed(form, IF outcome = "status"
                                        THEN "Failed to upload photo" ELSE "fetch")
    /\ UNCHANGED <<dives, nextId, clock, last, calls, inv, geo, club, searchInput>>

\* The reset after createDive returned: setLocation(null), handleRemovePhoto(),
\* setFormData with the next dive number
ResetKeepsNumber(f) ==
    [f EXCEPT !.location = Empty, !.selectedPhoto = Empty,
              !.formData = [diveNumber |-> [num |-> ToNumber(f.sub.formData.diveNumber)]]]

ResetForm(f) ==
    [f EXCEPT !.location = Empty, !.selectedPhoto = Empty,
              !.formData = [diveNumber |-> [num |-> ToNumber(f.sub.formData.diveNumber) + 1]]]

\* await createDive(...) returns: the reset, and finally
CreateDiveReturns ==
    /\ form.pc = "createDive"
    /\ createDive(SubmitArgs(form.sub))
    /\ form' = IF last'.result = "inserted"
               THEN [ResetForm(form) EXCEPT !.isSubmitting = FALSE, !.pc = "idle",
                                            !.event = "created"]
               ELSE SubmitFailed(form, "createDive")
    /\ UNCHANGED <<clock, calls, inv, photos, geo, club, searchInput>>

\* await createDive(...) throws: the mutation did not run
CreateDiveFails ==
    /\ form.pc = "createDive"
    /\ form' = SubmitFailed(form, "createDive")
    /\ UNCHANGED <<dives, nextId, clock, last, calls, inv, photos, geo, club, searchInput>>

\* The page is closed while a submission runs: the handler goes no further
ClosePage ==
    /\ form.pc \in {"generateUploadUrl", "upload", "createDive"}
    /\ form' = [form EXCEPT !.pc = "closed", !.event = form.pc]
    /\ UNCHANGED <<dives, nextId, clock, last, calls, inv, photos, geo, club, searchInput>>

\* The page is opened again
OpenPage ==
    /\ form.pc = "closed"
    /\ form' = FormStart
    /\ UNCHANGED <<dives, nextId, clock, last, calls, inv, photos, geo, club, searchInput>>

---------------------------------------------------------------------------
(* components/map/LocationSearchInput.tsx *)

\* The texts typed into the input
SearchTexts == {q \in Queries : q # <<>> /\ trim(q) = q}

\* The provider's feature for a query: a place of that name
Place(query) == [lat |-> 10, lon |-> 10, name |-> query, formatted |-> query]

\* The state of the component, the pending timers (searchTimeoutRef.current is
\* ref, the id of the timer set last) and the searches awaiting their answer;
\* value is the value of the last change event, latest the query searched last
SearchInputStart ==
    [query |-> <<>>, results |-> <<>>, isLoading |-> FALSE, showResults |-> FALSE,
     error |-> Null, timers |-> {}, ref |-> 0, flights |-> {},
     value |-> <<>>, latest |-> <<>>, selected |-> Empty, event |-> "none"]

\* clearTimeout(searchTimeoutRef.current)
ClearTimeoutKeeps(timers, ref) == timers

ClearTimeout(timers, ref) == {t \in timers : t.id # ref}

\* handleInputChange: a keystroke
HandleQueryChange(value) ==
    /\ calls < MaxCalls
    /\ calls' = calls + 1
    /\ searchInput' =
         [searchInput EXCEPT
            !.query = value, !.value = value, !.ref = calls + 1,
            !.timers = ClearTimeout(@, searchInput.ref)
                          \cup {[id |-> calls + 1, value |-> value]},
            !.event = "key"]
    /\ UNCHANGED <<dives, nextId, clock, last, inv, photos, geo, club, form>>

\* A timer fires: handleSearch(value) up to its await
HandleSearch(timer) ==
    /\ timer \in searchInput.timers
    /\ searchInput' =
         IF Len(trim(timer.value)) < 2
         THEN [searchInput EXCEPT !.timers = @ \ {timer}, !.results = <<>>,
                                  !.event = "timer"]
         ELSE [searchInput EXCEPT
                 !.timers = @ \ {timer}, !.isLoading = TRUE, !.error = Null,
                 !.flights = @ \cup {[id |-> timer.id, query |-> timer.value]},
                 !.latest = timer.value, !.event = "timer"]
    /\ UNCHANGED <<dives, nextId, clock, last, calls, inv, photos, geo, club, form>>

\* await searchLocation(searchQuery) returns or throws: try, catch, finally
SearchReturns(flight, resp) ==
    /\ flight \in searchInput.flights
    /\ LET r == searchLocation(TRUE, flight.query, resp)
       IN  searchInput' =
             IF r.result = "ok"
             THEN [searchInput EXCEPT !.flights = @ \ {flight}, !.results = r.value,
                                      !.showResults = TRUE, !.isLoading = FALSE,
                                      !.event = "answer"]
             ELSE [searchInput EXCEPT !.flights = @ \ {flight}, !.results = <<>>,
                                      !.error = [message |-> "Failed to search locations"],
                                      !.isLoading = FALSE, !.event = "answer"]
    /\ UNCHANGED <<dives, nextId, clock, last, calls, inv, photos, geo, club, form>>

\* handleResultClick on a result of the list shown
HandleResultClick(result) ==
    /\ searchInput.showResults
    /\ searchInput' =
         [searchInput EXCEPT
            !.selected = [latitude |-> result.lat, longitude |-> result.lon,
                          name |-> result.name, displayName |-> result.display_name],
            !.query = result.name, !.showResults = FALSE, !.results = <<>>,
            !.event = "click"]
    /\ UNCHANGED <<dives, nextId, clock, last, calls, inv, photos, geo, club, form>>


---------------------------------------------------------------------------
(* The clock *)

Tick ==
    /\ clock < MaxClock
    /\ clock' = clock + 1
    /\ UNCHANGED <<dives, nextId, last, calls, inv, photos, frontVars>>

---------------------------------------------------------------------------
(* Specifications *)

Init ==
    /\ dives = Empty
    /\ nextId = 1
    /\ clock = 0
    /\ last = [op |-> "none", result |-> "none"]
    /\ calls = 0
    /\ inv = [i \in 1..NumInv |-> Idle]
    /\ photos = Empty
    /\ geo = GeoStart(TRUE)
    /\ club = ClubStart
    /\ form = FormStart
    /\ searchInput = SearchInputStart

UpsertStep ==
    \E args \in UpsertCalls : upsertDive(args) /\ UNCHANGED <<clock, calls, inv, photos, frontVars>>

NextUpsert == Tick \/ UpsertStep

SpecUpsert == Init /\ [][NextUpsert]_vars

IssuedIds == 1..(nextId - 1)

\* The calls of the four mutations, one after the other, MaxCalls of them.
Counted == calls < MaxCalls /\ calls' = calls + 1 /\ UNCHANGED <<clock, inv, frontVars>>

CrudUpsertStep ==
    \E args \in UpsertCallsCrud : upsertDive(args) /\ Counted /\ UNCHANGED photos

CreateStep ==
    \E args \in CreateCalls : createDive(args) /\ Counted /\ UNCHANGED photos

UpdateStep ==
    \E diveId \in IssuedIds, updates \in UpdateCalls :
        updateDive(diveId, updates) /\ Counted /\ UNCHANGED photos

DeleteStep == \E diveId \in IssuedIds : deleteDive(diveId) /\ Counted

Next == Tick \/ CrudUpsertStep \/ CreateStep \/ UpdateStep \/ DeleteStep

Spec == Init /\ [][Next]_vars

\* The four mutations next to photo uploads.
UploadStep == \E p \in StorageIds : uploadPhoto(p)

PhotoCreateStep ==
    \E args \in PhotoCreateCalls : createDive(args) /\ Counted /\ UNCHANGED photos

NextPhoto ==
    UploadStep \/ CrudUpsertStep \/ PhotoCreateStep \/ UpdateStep \/ DeleteStep

SpecPhoto == Init /\ [][NextPhoto]_vars

\* Calls that carry coordinates: both, one of the two, or none.  latitude
\* and longitude are two optional fields of each validator.
GeoUpsertCalls ==
    { Spread([user_id |-> "u1", dive_number |-> 1, duration |-> 45, max_depth |-> 18], o) :
        o \in {Empty, [latitude |-> 43, longitude |-> 7], [latitude |-> 43]} }

GeoCreateCalls ==
    { Spread([userId |-> "u1", duration |-> 45, maxDepth |-> 18], o) :
        o \in {Empty, [latitude |-> 43, longitude |-> 7], [longitude |-> 7]} }

GeoUpdateCalls ==
    { [notes |-> "first"], [latitude |-> 44, longitude |-> 8], [latitude |-> 44] }

GeoUpsertStep ==
    \E args \in GeoUpsertCalls : upsertDive(args) /\ Counted /\ UNCHANGED photos

GeoCreateStep ==
    \E args \in GeoCreateCalls : createDive(args) /\ Counted /\ UNCHANGED photos

GeoUpdateStep ==
    \E diveId \in IssuedIds, updates \in GeoUpdateCalls :
        updateDive(diveId, updates) /\ Counted /\ UNCHANGED photos

NextGeo == Tick \/ GeoUpsertStep \/ GeoCreateStep \/ GeoUpdateStep

SpecGeo == Init /\ [][NextGeo]_vars

\* The geocoding client and the location picker; the API key is configured or
\* not when the application is built.
InitLocation ==
    /\ dives = Empty
    /\ nextId = 1
    /\ clock = 0
    /\ last = [op |-> "none", result |-> "none"]
    /\ calls = 0
    /\ inv = [i \in 1..NumInv |-> Idle]
    /\ photos = Empty
    /\ geo \in {GeoStart(key) : key \in BOOLEAN}
    /\ club = ClubStart
    /\ form = FormStart
    /\ searchInput = SearchInputStart

NextLocation ==
    \/ \E query \in Queries, resp \in GeoResponses : SearchLocation(query, resp)
    \/ \E pt \in Points, resp \in GeoResponses : ReverseGeocode(pt, resp)
    \/ \E pt \in Points, resp \in GeoResponses : MapClick(pt, resp)
    \/ \E pt \in Points, resp \in GeoResponses : DragEnd(pt, resp)

SpecLocation == InitLocation /\ [][NextLocation]_vars

\* The club-website search: the form, the library function and the route.
NextClub ==
    \/ \E name \in ClubNames : SetClubName(name)
    \/ \E name \in ClubNames, transport \in Transports, page \in ProviderPages :
          SearchClubWebsite(name, transport, page)
    \/ \E transport \in Transports, page \in ProviderPages :
          HandleSearchClubWebsite(transport, page)
    \/ \E query \in ClubNames, page \in ProviderPages : RouteGet(query, page)

SpecClub == Init /\ [][NextClub]_vars

\* The dive form: its inputs and the steps of a submission, with calls of
\* generateUploadUrl, the photo upload and createDive that return or fail.
FormInputs ==
    \/ HandleLocationSelect(Spot)
    \/ \E file \in Files : HandlePhotoChange(file)
    \/ \E value \in DOMAIN NumberOf : HandleInputChange(value)

SubmitSteps ==
    \/ \E ok \in BOOLEAN : GenerateUploadUrl(ok)
    \/ \E outcome \in UploadOutcomes : Upload(outcome)
    \/ CreateDiveReturns
    \/ CreateDiveFails

NextSubmit == FormInputs \/ HandleSubmit \/ SubmitSteps

NextForm == NextSubmit \/ ClosePage \/ OpenPage

SpecForm == Init /\ [][NextForm]_vars

\* Every call the handler awaits returns or throws in the end.
SpecSubmit == Init /\ [][NextSubmit]_vars /\ WF_vars(SubmitSteps)

\* The location search input: keystrokes, its timers, and searches whose
\* answers come back in any order.
NextSearch ==
    \/ \E value \in SearchTexts : HandleQueryChange(value)
    \/ \E timer \in searchInput.timers : HandleSearch(timer)
    \/ \E flight \in searchInput.flights :
          \E resp \in {[kind |-> "status"],
                       [kind |-> "ok", features |-> <<Place(flight.query)>>]} :
             SearchReturns(flight, resp)
    \/ \E k \in DOMAIN searchInput.results : HandleResultClick(searchInput.results[k])

SpecSearch == Init /\ [][NextSearch]_vars

\* Concurrent upsertDive invocations against the table, nothing else running.
NextConc ==
    \/ Tick
    \/ \E i \in DOMAIN inv, args \in ConcCalls : UpsertCall(i, args)
    \/ \E i \in DOMAIN inv : UpsertLookup(i)
    \/ \E i \in DOMAIN inv : UpsertWrite(i)

SpecConc == Init /\ [][NextConc]_vars

\* Concurrent upsertDive invocations against a store whose calls can throw.
NextFault ==
    \/ NextConc
    \/ \E i \in DOMAIN inv : UpsertLookupFails(i)
    \/ \E i \in DOMAIN inv : UpsertWriteFails(i)

SpecFault == Init /\ [][NextFault]_vars

\* Records already in the table when concurrent invocations start: each is
\* what an earlier upsertDive call inserted.
RaceSeeds ==
    { UpsertInsertDoc([user_id |-> "u1", dive_number |-> 1, duration |-> 30,
                       max_depth |-> 18], 0),
      UpsertInsertDoc([user_id |-> "u1", dive_number |-> 1, duration |-> 30,
                       max_depth |-> 18, notes |-> "old"], 0) }

InitRace ==
    /\ dives \in {dbInsert(Empty, 1, doc) : doc \in RaceSeeds}
    /\ nextId = 2
    /\ clock = 0
    /\ last = [op |-> "none", result |-> "none"]
    /\ calls = 0
    /\ inv = [i \in 1..NumInv |-> Idle]
    /\ photos = Empty
    /\ geo = GeoStart(TRUE)
    /\ club = ClubStart
    /\ form = FormStart
    /\ searchInput = SearchInputStart

\* Concurrent upsertDive invocations against a table that holds a record.
SpecRace == InitRace /\ [][NextConc]_vars

---------------------------------------------------------------------------
(* Properties *)

\* A step in which a mutation was called and returned
Called == last' # last

\* The documents stored under the key (user_id, dive_number) of args
Holders(db, args) ==
    {i \in DOMAIN db :
        /\ Has(db[i], "user_id") /\ db[i].user_id = args.user_id
        /\ Has(db[i], "dive_number") /\ db[i].dive_number = args.dive_number}

Went(r) == r.result \in {"inserted", "updated"}

\* C1: after any sequence of upsertDive calls that starts from the empty
\* table, no two records have the same (user_id, dive_number).
C1_KeyUnique ==
    \A i, j \in DOMAIN dives :
        i # j => ~(/\ dives[i].user_id = dives[j].user_id
                   /\ dives[i].dive_number = dives[j].dive_number)

C1_Witness ==
    /\ Cardinality(DOMAIN dives) = 2
    /\ last.op = "upsertDive" /\ last.result = "updated" /\ last.id = 2

\* The second of two consecutive upsertDive calls with identical arguments
C2_Second == last'.op = "upsertDive" /\ Called /\ last'.repeat /\ Went(last')

\* C2, as stated: after the second of two identical upsertDive calls exactly
\* one record holds the key, its logged_at is what it was after the first call
\* and its updated_at is later than after the first call.
C2_Original ==
    [][C2_Second =>
        /\ Cardinality(Holders(dives', last'.args)) = 1
        /\ dives'[last.id].logged_at = dives[last.id].logged_at
        /\ dives'[last.id].updated_at > dives[last.id].updated_at]_vars

\* C2, amended: after the second of two identical upsertDive calls exactly one
\* record holds the key, its logged_at is what it was after the first call, and
\* its updated_at is the Date.now() of the second call: never earlier than
\* after the first call, and later when the clock advanced between the calls.
C2_Idempotent ==
    [][C2_Second =>
        /\ Cardinality(Holders(dives', last'.args)) = 1
        /\ last'.result = "updated" /\ last'.id = last.id
        /\ dives'[last.id].logged_at = dives[last.id].logged_at
        /\ dives'[last.id].updated_at = last'.now
        /\ dives'[last.id].updated_at >= dives[last.id].updated_at
        /\ last'.now > last.now =>
              dives'[last.id].updated_at > dives[last.id].updated_at]_vars

C2_Witness ==
    /\ last.op = "upsertDive" /\ last.repeat /\ last.result = "updated"
    /\ dives[last.id].logged_at < dives[last.id].updated_at

\* C3: when upsertDive finds a record for the key, every field the call
\* supplies is stored with the supplied value, and every other field of the
\* record (updated_at aside) keeps the value it had before the call.
C3_PartialUpdate ==
    [][(last'.op = "upsertDive" /\ Called /\ last'.result = "updated") =>
        LET old == dives[last'.id]
            new == dives'[last'.id]
            args == last'.args
        IN  /\ \A f \in DOMAIN args : Has(new, f) /\ new[f] = args[f]
            /\ \A f \in DOMAIN old \ (DOMAIN args \cup {"updated_at"}) :
                  Has(new, f) /\ new[f] = old[f]]_vars

C3_Witness ==
    /\ last.op = "upsertDive" /\ last.result = "updated"
    /\ ~Has(last.args, "notes")
    /\ Has(dives[last.id], "notes") /\ dives[last.id].notes = "first"
    /\ dives[last.id].duration = 45

OutOfRange(args) ==
    \/ Has(args, "duration") /\ args.duration <= 0
    \/ Has(args, "max_depth") /\ args.max_depth < 0
    \/ Has(args, "dive_number") /\ args.dive_number <= 0

\* C4: an upsertDive call whose duration is <= 0, whose max depth is < 0 or
\* whose dive number is <= 0 is rejected and leaves the table as it was.
C4_Original ==
    [][(last'.op = "upsertDive" /\ Called /\ OutOfRange(last'.args)) =>
        (last'.result = "rejected" /\ dives' = dives)]_vars

Owner(doc) == IF Has(doc, "user_id") THEN doc.user_id ELSE doc.userId

HasNumber(doc) == Has(doc, "dive_number") \/ Has(doc, "diveNumber")

Number(doc) == IF Has(doc, "dive_number") THEN doc.dive_number ELSE doc.diveNumber

\* C5: in every reachable state of the table, under upsertDive, createDive,
\* updateDive and deleteDive calls, an owner has at most one record per dive
\* number.
C5_Original ==
    \A i, j \in DOMAIN dives :
        (i # j /\ HasNumber(dives[i]) /\ HasNumber(dives[j])) =>
            ~(/\ Owner(dives[i]) = Owner(dives[j])
              /\ Number(dives[i]) = Number(dives[j]))

CreationStamps == {"logged_at", "loggedAt"}

\* C6: no step changes, removes or adds the creation stamp (logged_at,
\* loggedAt) of a record that exists before and after it, and the stamp of a
\* record a step creates is the Date.now() of that call, never a value the
\* client sent.
C6_LoggedAtFrozen ==
    [][/\ \A id \in DOMAIN dives \cap DOMAIN dives' : \A f \in CreationStamps :
            IF Has(dives[id], f)
            THEN Has(dives'[id], f) /\ dives'[id][f] = dives[id][f]
            ELSE ~Has(dives'[id], f)
       /\ \A id \in DOMAIN dives' \ DOMAIN dives :
            /\ id = nextId
            /\ \A f \in CreationStamps : Has(dives'[id], f) => dives'[id][f] = clock
      ]_vars

C6_Witness ==
    /\ last.op \in {"upsertDive", "updateDive"} /\ last.result = "updated"
    /\ LET doc == dives[last.id]
       IN  \/ Has(doc, "logged_at") /\ doc.logged_at < last.now
           \/ Has(doc, "loggedAt") /\ doc.loggedAt < last.now

\* C7: every call that writes a record (an insert by upsertDive or createDive,
\* a patch by upsertDive or updateDive) leaves that record's modification
\* stamp (updated_at for upsertDive, updatedAt for createDive and updateDive)
\* equal to the Date.now() of the call.
C7_UpdatedAtIsNow ==
    [][(Called /\ Went(last')) =>
        LET doc == dives'[last'.id]
        IN  /\ last'.now = clock
            /\ IF last'.op = "upsertDive"
               THEN Has(doc, "updated_at") /\ doc.updated_at = clock
               ELSE Has(doc, "updatedAt") /\ doc.updatedAt = clock]_vars

C7_Witness ==
    /\ last.op = "updateDive" /\ last.result = "updated" /\ last.now > 0
    /\ Has(dives[last.id], "loggedAt") /\ dives[last.id].loggedAt < last.now
    /\ dives[last.id].updatedAt = last.now

\* C8: a record just inserted, by upsertDive or by createDive, has its
\* creation stamp equal to its modification stamp, both the Date.now() of the
\* inserting call.
C8_InsertStamps ==
    last.result = "inserted" =>
        LET doc == dives[last.id]
        IN  IF last.op = "upsertDive"
            THEN doc.logged_at = last.now /\ doc.updated_at = last.now
            ELSE doc.loggedAt = last.now /\ doc.updatedAt = last.now

C8_Witness ==
    /\ last.op = "createDive" /\ last.result = "inserted" /\ last.now > 0
    /\ dives[last.id].loggedAt = dives[last.id].updatedAt

\* C9: an upsertDive call the validator accepts returns "updated" with the id
\* of the record that held the key exactly when a record held the key before
\* the call, and otherwise "inserted" with an id no record had before the
\* call; either way that id alone holds the key afterwards, and no record's
\* id or key changes.
C9_Outcome ==
    [][(last'.op = "upsertDive" /\ Called /\ last'.result # "rejected") =>
        LET args == last'.args
            before == Holders(dives, args)
            after == Holders(dives', args)
        IN  /\ Went(last')
            /\ (last'.result = "updated") <=> (before # {})
            /\ last'.result = "updated" => (before = {last'.id} /\ after = {last'.id})
            /\ last'.result = "inserted" =>
                  (last'.id \notin DOMAIN dives /\ after = {last'.id})
            /\ \A i \in DOMAIN dives :
                  /\ i \in DOMAIN dives'
                  /\ dives'[i].user_id = dives[i].user_id
                  /\ dives'[i].dive_number = dives[i].dive_number]_vars

C9_Witness ==
    /\ last.op = "upsertDive" /\ last.result = "updated" /\ last.id = 1
    /\ Cardinality(DOMAIN dives) = 2

Finished(i) == inv[i].pc = "done" /\ Went(inv[i])

\* C10: of the upsertDive invocations that ran concurrently against a table
\* with no record for their key and have returned, exactly one reports
\* "inserted", every other one reports "updated", and exactly one record
\* holds the key.
C10_OneInserts ==
    \A i \in DOMAIN inv :
        /\ inv[i].pc = "done" => inv[i].result # "error"
        /\ Finished(i) =>
            LET same == {j \in DOMAIN inv :
                            Finished(j) /\ SameKey(inv[j].args, inv[i].args)}
            IN  /\ Cardinality({j \in same : inv[j].result = "inserted"}) = 1
                /\ Cardinality(Holders(dives, inv[i].args)) = 1

C10_Witness ==
    \E i, j \in DOMAIN inv :
        /\ i # j /\ Finished(i) /\ Finished(j)
        /\ SameKey(inv[i].args, inv[j].args)
        /\ inv[i].result = "inserted" /\ inv[j].result = "updated" /\ inv[j].retried

\* The invocations for the key of i whose write landed after that of i
Later(i) ==
    {k \in DOMAIN inv :
        Finished(k) /\ SameKey(inv[k].args, inv[i].args) /\ inv[k].seq > inv[i].seq}

\* C11: when upsertDive invocations for one key race, a field of the record
\* has the value supplied by the invocation whose write landed last among
\* those that supply it: a field both supply has the value of the later
\* write, a field only one supplies has that invocation's value.
C11_LastWriteWins ==
    \A i \in DOMAIN inv :
        Finished(i) =>
            \A f \in DOMAIN inv[i].args :
                (\A k \in Later(i) : ~Has(inv[k].args, f)) =>
                    /\ Has(dives[inv[i].id], f)
                    /\ dives[inv[i].id][f] = inv[i].args[f]

C11_Witness ==
    \E i, j \in DOMAIN inv :
        /\ Finished(i) /\ Finished(j) /\ inv[i].seq < inv[j].seq
        /\ inv[i].result = "updated" /\ inv[j].result = "updated"
        /\ inv[i].id = 1 /\ inv[j].id = 1 /\ inv[j].retried
        /\ Has(inv[i].args, "notes") /\ ~Has(inv[j].args, "notes")
        /\ dives[1].notes = inv[i].args.notes
        /\ inv[i].args.duration # inv[j].args.duration
        /\ dives[1].duration = inv[j].args.duration

\* C12: the step in which an upsertDive invocation reports a store error
\* (thrown by the lookup, the patch or the insert) leaves the table as it was,
\* the invocation has applied no write before it, and an invocation that has
\* reported the error takes no further step: it is not attempted again.
C12_FailureWritesNothing ==
    [][\A i \in DOMAIN inv :
          /\ (inv[i].result # "error" /\ inv'[i].result = "error") =>
                 /\ dives' = dives /\ nextId' = nextId
                 /\ inv'[i].pc = "done" /\ inv'[i].seq = 0 /\ inv'[i].id = 0
          /\ inv[i].result = "error" => inv'[i] = inv[i]]_vars

C12_Witness ==
    \E i \in DOMAIN inv :
        /\ inv[i].pc = "done" /\ inv[i].result = "error"
        /\ inv[i].existing # {}
        /\ \A e \in inv[i].existing :
              e \in DOMAIN dives /\ dives[e].duration # inv[i].args.duration

\* C13: an upsertDive call for the key (u, n) leaves every record that does
\* not hold (u, n) in the table and unchanged, adds no record under another
\* key, and leaves the file storage as it was.
C13_OnlyTheKey ==
    [][(last'.op = "upsertDive" /\ Called) =>
        LET args == last'.args
        IN  /\ \A id \in DOMAIN dives \ Holders(dives, args) :
                  id \in DOMAIN dives' /\ dives'[id] = dives[id]
            /\ \A id \in DOMAIN dives' \ DOMAIN dives : id \in Holders(dives', args)
            /\ photos' = photos]_vars

C13_Witness ==
    /\ last.op = "upsertDive" /\ last.result = "updated"
    /\ photos # Empty
    /\ \E id \in DOMAIN dives \ Holders(dives, last.args) :
          Has(dives[id], "photoStorageId")

\* C14: in every stored record latitude and longitude are both present or
\* both absent, after any sequence of upsertDive, createDive and updateDive
\* calls.
C14_Original ==
    \A id \in DOMAIN dives :
        Has(dives[id], "latitude") <=> Has(dives[id], "longitude")

\* C15: no step of upsertDive, createDive, updateDive or deleteDive removes a
\* stored photo or changes its content, and after deleteDive has removed a
\* record the photo its photoStorageId names is still stored and
\* getDivePhotoUrl still resolves it.
C15_PhotosKept ==
    [][/\ \A p \in DOMAIN photos : p \in DOMAIN photos' /\ photos'[p] = photos[p]
       /\ (Called /\ last'.op = "deleteDive" /\ last'.result = "deleted") =>
            LET doc == last'.doc
            IN  (Has(doc, "photoStorageId") /\ doc.photoStorageId \in DOMAIN photos) =>
                    /\ getDivePhotoUrl(photos', doc.photoStorageId) # <<"null">>
                    /\ getDivePhotoUrl(photos', doc.photoStorageId)
                          = getDivePhotoUrl(photos, doc.photoStorageId)]_vars

C15_Witness ==
    /\ last.op = "deleteDive" /\ last.result = "deleted"
    /\ last.id \notin DOMAIN dives
    /\ Has(last.doc, "photoStorageId")
    /\ getDivePhotoUrl(photos, last.doc.photoStorageId) = <<"url", last.doc.photoStorageId>>

\* C16: searchLocation called with an empty query, or one shorter than 2
\* characters, returns the empty list and never throws.
C16_Original ==
    (geo.ret.fn = "searchLocation" /\ Len(geo.ret.input) < 2) =>
        (geo.ret.result = "ok" /\ geo.ret.value = <<>>)

\* C17: when the provider is unreachable or answers with a non-success
\* status, searchLocation and reverseGeocode throw to their caller: they
\* return no value, empty or partial, and they have sent one request only.
C17_FailureReachesCaller ==
    (/\ geo.ret.fn \in {"searchLocation", "reverseGeocode"}
     /\ geo.ret.resp.kind \in {"unreachable", "status"}) =>
        (geo.ret.result = "error" /\ geo.ret.sent = 1)

C17_Witness ==
    /\ geo.ret.fn = "searchLocation" /\ Len(trim(geo.ret.input)) >= 2
    /\ geo.ret.resp.kind = "status" /\ geo.ret.result = "error"
    /\ geo.event = "call"

\* C18: when reverseGeocode returns null for the coordinates of a click or
\* of a dragend, the picker selects a location with exactly those coordinates
\* whose display name is the coordinate-formatted string.
C18_Original ==
    (/\ geo.event \in {"click", "dragend"}
     /\ geo.ret.result = "ok" /\ geo.ret.value = Null) =>
        /\ geo.selectedLocation.latitude = geo.ret.input[1]
        /\ geo.selectedLocation.longitude = geo.ret.input[2]
        /\ DisplayName(geo.selectedLocation)
              = CoordString(geo.ret.input[1], geo.ret.input[2])

\* C19: searchClubWebsite called with an empty name throws an InvalidQuery
\* error, and no search request is sent.
C19_Original ==
    (club.ret.fn = "searchClubWebsite" /\ club.ret.input = <<>>) =>
        (club.ret.result = "error" /\ club.ret.sent = 0)

\* C20: when the request of searchClubWebsite fails in transport, or the
\* provider is unreachable or answers with a non-success status, the caller
\* of searchClubWebsite gets an error, which is not what it gets when there
\* is no match.
C20_Original ==
    (/\ club.ret.fn = "searchClubWebsite"
     /\ \/ club.ret.transport = "failed"
        \/ club.ret.page.kind \in {"unreachable", "status"}) =>
        club.ret.result = "error"

\* C21: when the provider's page holds no result link that the route can
\* parse, searchClubWebsite returns null to its caller and throws nothing, and
\* the search button of the form leaves the club-website field as it was.
C21_NoLinkGivesNull ==
    [][(club'.ret.fn = "searchClubWebsite" /\ NoResultLink(club'.ret.page)) =>
          /\ club'.ret.result = "ok"
          /\ club'.ret.value = Null
          /\ club'.event = "button" => club'.clubWebsite = club.clubWebsite]_vars

C21_Witness ==
    /\ club.event = "button" /\ club.ret.fn = "searchClubWebsite"
    /\ NoResultLink(club.ret.page) /\ club.ret.value = Null
    /\ club.clubWebsite = <<"https://", "club.example">>

\* A URL that begins with http:// or https://
FullyQualified(url) == url # <<>> /\ Head(url) \in {"http://", "https://"}

\* C22: every URL the club-website search returns with success begins with
\* http:// or https://, whatever the form of the first result link
\* (redirect-wrapped, protocol-relative, relative path or bare domain).
C22_Original ==
    /\ (club.ret.fn = "GET" /\ club.ret.status = 200) =>
          FullyQualified(club.ret.body.url)
    /\ (club.ret.fn = "searchClubWebsite" /\ club.ret.value # Null) =>
          FullyQualified(club.ret.value.url)

\* C23: a submission of the dive form that is cancelled, or that fails,
\* before the dive record is written (while the upload URL is requested, while
\* the photo is transferred) has stored nothing: no file and no dive record.
C23_Original ==
    (\/ form.pc = "closed"
     \/ form.event = "failed" /\ form.error.message # "createDive") =>
        (DOMAIN photos = form.sub.stored /\ nextId = form.sub.issued)

C27_SubmitEnds == form.isSubmitting ~> ~form.isSubmitting

C27_Witness ==
    /\ form.event = "failed" /\ form.error.message = "createDive"
    /\ ~form.isSubmitting /\ DOMAIN photos # {}

\* C28: when a submission has succeeded the form's dive number is the
\* submitted number plus one and no location and no photo is selected; when
\* it has failed the form data, the location and the photo are as they were
\* and an error message is set.
C28_AfterSubmit ==
    [][/\ form'.event = "created" =>
            /\ ToNumber(form'.formData.diveNumber) = last'.args.diveNumber + 1
            /\ form'.location = Empty /\ form'.selectedPhoto = Empty
       /\ form'.event \in {"failed", "refused"} =>
            /\ form'.formData = form.formData
            /\ form'.location = form.location
            /\ form'.selectedPhoto = form.selectedPhoto
            /\ form'.error # Null]_vars

C28_Witness ==
    /\ form.event = "created" /\ last.args.diveNumber = 2
    /\ form.formData.diveNumber = [num |-> 3]
    /\ form.location = Empty /\ form.selectedPhoto = Empty

\* C25: once no search is in flight the results in the list are those of the
\* query searched last, and an answer that arrives after a result was selected
\* does not fill the list again.
C25_Original ==
    /\ [](searchInput.flights = {} /\ searchInput.results # <<>> =>
            searchInput.results[1].name = searchInput.latest)
    /\ [][searchInput.event = "click" /\ searchInput'.event = "answer" =>
            searchInput'.results = <<>>]_vars

\* C26: at most one timer is pending at any time, and a search goes to the
\* provider only with the value of the last keystroke.
C26_Debounced ==
    /\ [](Cardinality(searchInput.timers) <= 1)
    /\ [][\A flight \in searchInput'.flights \ searchInput.flights :
             flight.query = searchInput.value /\ flight.id = searchInput.ref]_vars

C26_Witness ==
    /\ searchInput.timers = {}
    /\ \E flight \in searchInput.flights :
          flight.id = 3 /\ flight.query = searchInput.value /\ calls = 3

C30_StampsOrdered ==
    \A id \in DOMAIN dives :
        IF Has(dives[id], "logged_at")
        THEN dives[id].updated_at >= dives[id].logged_at
        ELSE dives[id].updatedAt >= dives[id].loggedAt

C30_Witness ==
    \E id \in DOMAIN dives :
        /\ Has(dives[id], "logged_at") /\ dives[id].updated_at > dives[id].logged_at
        /\ last.op = "upsertDive" /\ last.result = "updated"

====
